---- MODULE Spec2Model ----
(***************************************************************************)
(* Survey backend (app/main.py): the request handlers that mutate and read *)
(* the survey aggregate, over a relational store with the foreign keys     *)
(* declared in app/models.py and the unit of work of app/database.py.      *)
(*                                                                         *)
(* Each request runs in its own session (get_db_session).  A session's     *)
(* statements are collected in a write set that is invisible to other      *)
(* sessions until the commit applies it to the committed store; any        *)
(* failure rolls the whole session back.                                   *)
(*                                                                         *)
(* The classes are the ones app/models.py and app/schemas.py declare.      *)
(* main.py passes max_duration_seconds to models.SurveyElement and reads   *)
(* is_test_run from schemas.SurveyResultCreate and from                    *)
(* models.SurveyParticipant; none of the three declares the name, so the   *)
(* constructor raises TypeError and the reads raise AttributeError.        *)
(***************************************************************************)
EXTENDS Bags, FiniteSets, Integers, Sequences, TLC

VARIABLES
    db,          \* the committed store: surveys, elements, participants, responses
    sess,        \* per request slot: position, request data, loaded objects, write set
    nextId,      \* the store's id sequences (never reused, not rolled back)
    concurrent,  \* whether the runtime interleaves two requests
    fs           \* the upload directory and the background image cleanup

vars == <<db, sess, nextId, concurrent, fs>>

----------------------------------------------------------------------------
(* Bounds *)

MaxElements == 2        \* element identities a request names
MaxAnswers == 2         \* most answers of one submission

Procs == {1, 2}

\* Two surveys: the one a request names and another one beside it.
SurveyIds == {1, 2}
ElementIds == 1..MaxElements

----------------------------------------------------------------------------
(* Values *)

Null == "NULL"        \* SQL NULL / JSON null / Python None, for a text column
NullId == 0           \* SQL NULL for an integer key column (ids start at 1)
Absent == "ABSENT"    \* a field the request body does not contain

\* the title a create request carries, and the title an update request carries
CreateTitle == "t1"
UpdateTitle == "t2"

\* (element_type, question_type as sent) pairs of an element specification
KindInputs ==
    { <<"info", Absent>>, <<"question", "shorttext">>,
      <<"question", Absent>>, <<"question", Null>> }

\* SurveyElementBase defaults of the fields a request leaves out
DefaultPage == 1

DefaultOrdering == 0

DefaultLlmAssistanceEnabled == FALSE

ElementSpec(k, r) ==
    [element_type |-> k[1], question_type |-> k[2], references_element_id |-> r,
     page |-> DefaultPage, ordering |-> DefaultOrdering, question_text |-> Null,
     task_identifier |-> Null, randomization_group |-> Null,
     llm_assistance_enabled |-> DefaultLlmAssistanceEnabled,
     image_url |-> Null]

\* an info element with reference identity r (NullId: no reference)
InfoSpecs == { ElementSpec(<<"info", Absent>>, r) : r \in {NullId} \cup ElementIds }

\* element specifications a caller may send: every kind without a reference,
\* and an info element with any reference identity
ElementSpecs == { ElementSpec(k, NullId) : k \in KindInputs } \cup InfoSpecs

SeqsUpTo(S, n) == UNION { [1..k -> S] : k \in 0..n }

\* question lists a caller may send: the empty list, every single element, and
\* every pair of info elements with any reference identities
QuestionLists ==
    {<<>>} \cup { <<el>> : el \in ElementSpecs }
           \cup { <<a, b>> : a \in InfoSpecs, b \in InfoSpecs }

\* The keys of a submission's answers are strings: the decimal string of an
\* element id, or a string that int() rejects.
DigitStrings == <<"1", "2", "3", "4", "5", "6", "7", "8", "9">>

KeyOf(i) == DigitStrings[i]

NotAnInt == "x"

\* int(key) succeeds
IsInt(k) == \E i \in DOMAIN DigitStrings : DigitStrings[i] = k

int(k) == CHOOSE i \in DOMAIN DigitStrings : DigitStrings[i] = k

\* the entries of a submission that the response loop stores, in order
IntEntries(answers) == SelectSeq(answers, IsInt)

\* answers with distinct integer keys, in the order sent
IntLists ==
    { a \in SeqsUpTo({ KeyOf(i) : i \in ElementIds }, MaxAnswers) :
        \A i, j \in DOMAIN a : i # j => a[i] # a[j] }

\* answers of a submission: the keys in the order sent, all integers or with
\* one key that is not an integer at the end
AnswerLists == IntLists \cup { Append(a, NotAnInt) : a \in IntLists }

EmptyFn == [x \in {} |-> 0]

Restrict(f, S) == [x \in S |-> f[x]]

----------------------------------------------------------------------------
(* The store *)

EmptyDB ==
    [surveys |-> EmptyFn, elements |-> EmptyFn,
     participants |-> EmptyFn, responses |-> EmptyFn]

\* The declared foreign keys hold in store d. The store of DATABASE_URL
\* checks them at every statement; the SQLite file database.py falls back to
\* is opened without the pragma that turns the check on. A store that holds
\* surveys only satisfies them either way.
ForeignKeysHold(d) ==
    /\ \A e \in DOMAIN d.elements :
          /\ d.elements[e].survey_id \in DOMAIN d.surveys
          /\ \/ d.elements[e].references_element_id = NullId
             \/ d.elements[e].references_element_id \in DOMAIN d.elements
    /\ \A p \in DOMAIN d.participants :
          d.participants[p].survey_id \in DOMAIN d.surveys
    /\ \A r \in DOMAIN d.responses :
          /\ d.responses[r].participant_id \in DOMAIN d.participants
          /\ d.responses[r].survey_element_id \in DOMAIN d.elements

\* A session's write set: rows deleted, updated and inserted, not yet committed.
EmptyWS ==
    [delS |-> {}, updS |-> EmptyFn, insS |-> EmptyFn,
     delE |-> {}, nullE |-> {}, insE |-> EmptyFn,
     delP |-> {}, insP |-> EmptyFn,
     delR |-> {}, insR |-> EmptyFn]

\* Store d with write set w applied.
Apply(w, d) ==
    LET keepS == DOMAIN d.surveys \ w.delS
        keepE == DOMAIN d.elements \ w.delE
        keepP == DOMAIN d.participants \ w.delP
        keepR == DOMAIN d.responses \ w.delR
    IN  [surveys |->
            [i \in keepS \cup DOMAIN w.insS |->
                IF i \in DOMAIN w.insS THEN w.insS[i]
                ELSE IF i \in DOMAIN w.updS THEN [title |-> w.updS[i]]
                ELSE d.surveys[i]],
         elements |->
            [i \in keepE \cup DOMAIN w.insE |->
                IF i \in DOMAIN w.insE THEN w.insE[i]
                ELSE IF i \in w.nullE
                     THEN [d.elements[i] EXCEPT !.references_element_id = NullId]
                ELSE d.elements[i]],
         participants |->
            [i \in keepP \cup DOMAIN w.insP |->
                IF i \in DOMAIN w.insP THEN w.insP[i] ELSE d.participants[i]],
         responses |->
            [i \in keepR \cup DOMAIN w.insR |->
                IF i \in DOMAIN w.insR THEN w.insR[i] ELSE d.responses[i]]]

----------------------------------------------------------------------------
(* Sessions *)

Idle ==
    [pc |-> "idle", op |-> "none", sid |-> 0, title |-> "none",
     questions |-> <<>>, answers |-> <<>>,
     loadedE |-> {}, loadedP |-> EmptyFn, todo |-> {}, marked |-> {},
     delSurvey |-> FALSE,
     ws |-> EmptyWS, result |-> "none", err |-> "none", out |-> 0,
     elements_map |-> EmptyFn, question_elements |-> <<>>,
     body |-> <<>>,
     surveys |-> <<>>,   \* list_surveys: the surveys the first query returned
     tasks |-> FALSE]    \* background_tasks: the image cleanup has been added

\* What session p sees: the committed store with its own writes applied.
View(p) == Apply(sess[p].ws, db)

\* A request may start in an idle slot; without interleaving only slot 1 is used.
CanStart(p) ==
    /\ sess[p].pc = "idle"
    /\ concurrent \/ (p = 1 /\ \A q \in Procs : sess[q].pc = "idle")

\* get_db_session: an exception in the handler, or in the commit after it,
\* rolls the session back. The request is answered with the error, and the
\* background tasks of the response it would have got are not run.
Rollback(p, code, why) ==
    sess' = [sess EXCEPT ![p] =
                [@ EXCEPT !.pc = "done", !.ws = EmptyWS,
                          !.result = code, !.err = why, !.tasks = FALSE]]

\* background_tasks.add_task(perform_image_cleanup): the task is on the list
\* of the request, in a specification that follows the upload directory and
\* the tasks that sweep it. The other specifications leave both out.
add_task == fs.background

\* get_db_session: commit applies the whole write set, or fails and rolls back.
CommitOk(p, w) ==
    /\ ForeignKeysHold(Apply(w, db))
    /\ DOMAIN w.updS \subseteq DOMAIN db.surveys

----------------------------------------------------------------------------
(* Request validation (schemas.py) *)

\* Interleaved requests send the empty list or one plain info element.
PlainLists == {<<>>, <<ElementSpec(<<"info", Absent>>, NullId)>>}

CanSend(questions) == concurrent => questions \in PlainLists

\* SurveyElementCreate.check_question_type: TRUE when the validator passes.
check_question_type(v, element_type) ==
    ~(element_type = "question" /\ v = Null)

\* A field validator runs only for a field the request contains.
SurveyElementCreate(el) ==
    \/ el.question_type = Absent
    \/ check_question_type(el.question_type, el.element_type)

SurveyCreate(questions) ==
    \A i \in DOMAIN questions : SurveyElementCreate(questions[i])

\* The attributes models.SurveyElement declares: its columns and its
\* relationship.
SurveyElementColumns ==
    {"id", "survey_id", "element_type", "question_type", "question_text",
     "options", "ordering", "page", "image_url", "required", "paste_disabled",
     "randomization_group", "allow_back_navigation", "llm_assistance_enabled",
     "maxlength", "task_identifier", "references_element_id", "survey"}

\* what the declarative constructor raises for a keyword that is no attribute
\* of the class
TypeError == [raised |-> "TypeError"]

\* model_dump() plus survey_id, in the fields the model follows.
element_dict(el, sid) ==
    [survey_id |-> sid,
     element_type |-> el.element_type,
     question_type |-> IF el.question_type = Absent THEN Null ELSE el.question_type,
     references_element_id |-> el.references_element_id,
     page |-> el.page, ordering |-> el.ordering,
     question_text |-> el.question_text,
     task_identifier |-> el.task_identifier,
     randomization_group |-> el.randomization_group,
     llm_assistance_enabled |-> el.llm_assistance_enabled,
     image_url |-> el.image_url]

\* models.SurveyElement(**element_dict) for a class with the given attributes:
\* the row a validated element specification becomes, or TypeError.
\* create_survey dumps every field of the schema, max_duration_seconds among
\* them; update_survey dumps the fields that were set and then assigns
\* max_duration_seconds: the key is in element_dict for every element.
NewElement(columns, el, sid) ==
    IF "max_duration_seconds" \in columns THEN element_dict(el, sid)
    ELSE TypeError

\* The rows for a question list, with ids first, first+1, ... in list order.
NewElements(columns, questions, sid, first) ==
    [i \in first .. (first + Len(questions) - 1) |->
        NewElement(columns, questions[i - first + 1], sid)]

\* the loop over survey_in.questions raises at its first element
Raises(columns, questions) ==
    \E i \in DOMAIN questions : NewElement(columns, questions[i], 0) = TypeError

----------------------------------------------------------------------------
(* create_survey *)

create_survey(p, questions) ==
    /\ CanStart(p)
    /\ CanSend(questions)
    /\ nextId.s \in SurveyIds
    /\ nextId.e + Len(questions) - 1 <= MaxElements
    /\ LET s0 == [Idle EXCEPT !.op = "create", !.title = CreateTitle,
                              !.questions = questions, !.sid = nextId.s]
       IN
       \/ /\ ~SurveyCreate(questions)
          /\ sess' = [sess EXCEPT ![p] =
                        [s0 EXCEPT !.pc = "done", !.sid = 0, !.result = "422"]]
          /\ UNCHANGED <<db, nextId, concurrent, fs>>
       \* db.add(new_survey); flush: the survey row gets its id. Then the loop
       \* that builds the elements, add_all, add_task and return.
       \/ /\ SurveyCreate(questions)
          /\ LET columns == SurveyElementColumns IN
               sess' = [sess EXCEPT ![p] =
                  IF Raises(columns, questions)
                  THEN [s0 EXCEPT !.pc = "done", !.result = "500",
                                  !.err = "TypeError"]
                  ELSE [s0 EXCEPT !.pc = "create_commit", !.tasks = add_task,
                                  !.ws.insS = (nextId.s :> [title |-> CreateTitle])]]
          /\ nextId' = [nextId EXCEPT !.s = @ + 1]
          /\ UNCHANGED <<db, concurrent, fs>>

\* get_db_session commits: the survey row and the elements are inserted
create_survey_commit(p) ==
    /\ sess[p].pc = "create_commit"
    /\ LET columns == SurveyElementColumns IN
         \* the handler returned: its loop built every element
         /\ ~Raises(columns, sess[p].questions)
         /\ LET rows == NewElements(columns, sess[p].questions, sess[p].sid, nextId.e)
                w == [sess[p].ws EXCEPT !.insE = rows]
            IN
            \/ /\ CommitOk(p, w)
               /\ db' = Apply(w, db)
               /\ nextId' = [nextId EXCEPT !.e = @ + Len(sess[p].questions)]
               /\ sess' = [sess EXCEPT ![p] =
                             [@ EXCEPT !.pc = "done", !.ws = EmptyWS, !.result = "ok",
                                       !.out = nextId.e]]
               /\ UNCHANGED <<concurrent, fs>>
            \/ /\ ~CommitOk(p, w)
               /\ nextId' = [nextId EXCEPT !.e = @ + Len(sess[p].questions)]
               /\ Rollback(p, "500", "integrity")
               /\ UNCHANGED <<db, concurrent, fs>>
            \/ /\ Rollback(p, "500", "fault")
               /\ UNCHANGED <<db, nextId, concurrent, fs>>

----------------------------------------------------------------------------
(* What a handler's first query loads (selectinload) *)

ElementsOf(d, sid) == { e \in DOMAIN d.elements : d.elements[e].survey_id = sid }

ParticipantsOf(d, sid) ==
    { x \in DOMAIN d.participants : d.participants[x].survey_id = sid }

ResponsesOf(d, pid) ==
    { r \in DOMAIN d.responses : d.responses[r].participant_id = pid }

\* Survey.participants with each participant's responses
LoadParticipants(d, sid) ==
    [x \in ParticipantsOf(d, sid) |-> ResponsesOf(d, x)]

Min(S) == CHOOSE m \in S : \A x \in S : m <= x

----------------------------------------------------------------------------
(* update_survey *)

\* The query at the top of update_survey: 422 from validation, 404, or the
\* survey with its elements, participants and their responses.
update_survey(p, sid, questions) ==
    /\ CanStart(p)
    /\ CanSend(questions)
    /\ nextId.e + Len(questions) - 1 <= MaxElements
    /\ LET s0 == [Idle EXCEPT !.op = "update", !.sid = sid, !.title = UpdateTitle,
                              !.questions = questions]
       IN
       \/ /\ ~SurveyCreate(questions)
          /\ sess' = [sess EXCEPT ![p] = [s0 EXCEPT !.pc = "done", !.result = "422"]]
       \/ /\ SurveyCreate(questions)
          /\ sid \notin DOMAIN db.surveys
          /\ sess' = [sess EXCEPT ![p] = [s0 EXCEPT !.pc = "done", !.result = "404"]]
       \/ /\ SurveyCreate(questions)
          /\ sid \in DOMAIN db.surveys
          /\ LET parts == LoadParticipants(db, sid)
             IN sess' = [sess EXCEPT ![p] =
                    [s0 EXCEPT !.loadedE = ElementsOf(db, sid),
                               !.loadedP = parts,
                               !.todo = DOMAIN parts,
                               !.pc = IF DOMAIN parts = {} THEN "upd_elements"
                                      ELSE "upd_participants"]]
    /\ UNCHANGED <<db, nextId, concurrent, fs>>

\* One round of "for participant in db_survey.participants": delete its
\* responses and flush (which also emits the participant deletes marked so
\* far), then mark the participant for deletion.
update_survey_participant(p) ==
    /\ sess[p].pc = "upd_participants"
    /\ sess[p].todo # {}
    /\ LET x == Min(sess[p].todo)
           rest == sess[p].todo \ {x}
           nextpc == IF rest = {} THEN "upd_flush_participants" ELSE "upd_participants"
           w == [sess[p].ws EXCEPT !.delR = @ \cup sess[p].loadedP[x],
                                   !.delP = @ \cup sess[p].marked]
       IN
       \/ /\ sess[p].loadedP[x] = {}
          /\ sess' = [sess EXCEPT ![p] =
                        [@ EXCEPT !.marked = @ \cup {x}, !.todo = rest, !.pc = nextpc]]
       \/ /\ sess[p].loadedP[x] # {}
          /\ ForeignKeysHold(Apply(w, db))
          /\ sess' = [sess EXCEPT ![p] =
                        [@ EXCEPT !.ws = w, !.marked = {x}, !.todo = rest, !.pc = nextpc]]
       \/ /\ sess[p].loadedP[x] # {}
          /\ ~ForeignKeysHold(Apply(w, db))
          /\ Rollback(p, "500", "integrity")
       \/ /\ sess[p].loadedP[x] # {}
          /\ Rollback(p, "500", "fault")
    /\ UNCHANGED <<db, nextId, concurrent, fs>>

\* The flush after the loop: the participants still marked are deleted.
update_survey_flush_participants(p) ==
    /\ sess[p].pc = "upd_flush_participants"
    /\ LET w == [sess[p].ws EXCEPT !.delP = @ \cup sess[p].marked]
       IN
       \/ /\ ForeignKeysHold(Apply(w, db))
          /\ sess' = [sess EXCEPT ![p] =
                        [@ EXCEPT !.ws = w, !.marked = {}, !.pc = "upd_elements"]]
       \/ /\ ~ForeignKeysHold(Apply(w, db))
          /\ Rollback(p, "500", "integrity")
       \/ Rollback(p, "500", "fault")
    /\ UNCHANGED <<db, nextId, concurrent, fs>>

\* The ORM deletes the marked elements one DELETE per row, in primary key
\* order; the store checks the foreign keys after each.
DeleteEachOk(w, d, ids) ==
    \A m \in ids :
        ForeignKeysHold(Apply([w EXCEPT !.delE = @ \cup { j \in ids : j <= m }], d))

\* A flush that commits: the fields assigned so far are in the committed
\* store before the new elements are built.
update_survey_elements_commits(p) ==
    /\ sess[p].pc = "upd_elements"
    /\ LET sid == sess[p].sid
           w == [sess[p].ws EXCEPT !.updS = (sid :> sess[p].title),
                                   !.delE = @ \cup sess[p].loadedE]
       IN
       /\ CommitOk(p, w)
       /\ db' = Apply(w, db)
       /\ sess' = [sess EXCEPT ![p] = [@ EXCEPT !.ws = EmptyWS, !.pc = "upd_commit"]]
    /\ UNCHANGED <<nextId, concurrent, fs>>

\* Steps 3 and 4: assign the survey's fields, delete the old elements, flush.
update_survey_elements(p) ==
    /\ sess[p].pc = "upd_elements"
    /\ LET sid == sess[p].sid
           wu == [sess[p].ws EXCEPT !.updS = (sid :> sess[p].title)]
           w == [wu EXCEPT !.delE = @ \cup sess[p].loadedE]
       IN
       \/ /\ sess[p].loadedE = {}
          /\ sess' = [sess EXCEPT ![p] = [@ EXCEPT !.ws = wu, !.pc = "upd_commit"]]
       \/ /\ sess[p].loadedE # {}
          /\ sid \in DOMAIN db.surveys
          /\ DeleteEachOk(wu, db, sess[p].loadedE)
          /\ sess' = [sess EXCEPT ![p] = [@ EXCEPT !.ws = w, !.pc = "upd_commit"]]
       \/ /\ sess[p].loadedE # {}
          /\ sid \in DOMAIN db.surveys
          /\ ~DeleteEachOk(wu, db, sess[p].loadedE)
          /\ Rollback(p, "500", "integrity")
       \/ /\ sess[p].loadedE # {}
          /\ sid \notin DOMAIN db.surveys
          /\ Rollback(p, "500", "stale")
       \/ /\ sess[p].loadedE # {}
          /\ Rollback(p, "500", "fault")
    /\ UNCHANGED <<db, nextId, concurrent, fs>>

\* Step 5 and db.commit(): the new elements are built and inserted, and
\* everything is committed together.
update_survey_commit(p) ==
    /\ sess[p].pc = "upd_commit"
    /\ LET columns == SurveyElementColumns IN
         IF Raises(columns, sess[p].questions)
         THEN /\ Rollback(p, "500", "TypeError")
              /\ UNCHANGED <<db, nextId, concurrent, fs>>
         ELSE
         LET rows == NewElements(columns, sess[p].questions, sess[p].sid, nextId.e)
             w == [sess[p].ws EXCEPT !.insE = rows]
         IN
         \/ /\ CommitOk(p, w)
            /\ db' = Apply(w, db)
            /\ nextId' = [nextId EXCEPT !.e = @ + Len(sess[p].questions)]
            /\ sess' = [sess EXCEPT ![p] =
                          [@ EXCEPT !.pc = "upd_refresh", !.ws = EmptyWS,
                                    !.out = nextId.e]]
            /\ UNCHANGED <<concurrent, fs>>
         \/ /\ ~CommitOk(p, w)
            /\ nextId' = [nextId EXCEPT !.e = @ + Len(sess[p].questions)]
            /\ Rollback(p, "500",
                  IF DOMAIN w.updS \subseteq DOMAIN db.surveys THEN "integrity"
                  ELSE "stale")
            /\ UNCHANGED <<db, concurrent, fs>>
         \/ /\ Rollback(p, "500", "fault")
            /\ UNCHANGED <<db, nextId, concurrent, fs>>

\* db.refresh(db_survey) after the commit, add_task and return: the refresh
\* raises when the row of the survey is gone or the store fails, and then
\* the request answers 500 although its changes are committed.
update_survey_refresh(p) ==
    /\ sess[p].pc = "upd_refresh"
    /\ \/ /\ sess[p].sid \in DOMAIN db.surveys
          /\ sess' = [sess EXCEPT ![p] =
                        [@ EXCEPT !.pc = "done", !.result = "ok", !.tasks = add_task]]
       \* the row is gone, or the store fails
       \/ Rollback(p, "500", "refresh")
    /\ UNCHANGED <<db, nextId, concurrent, fs>>

----------------------------------------------------------------------------
(* delete_survey *)

delete_survey(p, sid) ==
    /\ CanStart(p)
    /\ LET s0 == [Idle EXCEPT !.op = "delete", !.sid = sid]
       IN
       \/ /\ sid \notin DOMAIN db.surveys
          /\ sess' = [sess EXCEPT ![p] = [s0 EXCEPT !.pc = "done", !.result = "404"]]
       \/ /\ sid \in DOMAIN db.surveys
          /\ LET parts == LoadParticipants(db, sid)
                 elems == ElementsOf(db, sid)
             IN sess' = [sess EXCEPT ![p] =
                    [s0 EXCEPT !.loadedE = elems,
                               !.loadedP = parts,
                               !.pc = IF DOMAIN parts # {} THEN "del_responses"
                                      ELSE IF elems # {} THEN "del_break_references"
                                      ELSE "del_commit",
                               \* nothing to delete: add_task and return
                               !.tasks = (add_task /\ DOMAIN parts = {} /\ elems = {})]]
    /\ UNCHANGED <<db, nextId, concurrent, fs>>

\* DELETE FROM responses WHERE participant_id IN (participant_ids)
delete_survey_responses(p) ==
    /\ sess[p].pc = "del_responses"
    /\ LET v == View(p)
           gone == { r \in DOMAIN v.responses :
                        v.responses[r].participant_id \in DOMAIN sess[p].loadedP }
       IN
       \/ sess' = [sess EXCEPT ![p] =
                    [@ EXCEPT !.ws.delR = @ \cup gone, !.pc = "del_participants"]]
       \/ Rollback(p, "500", "fault")
    /\ UNCHANGED <<db, nextId, concurrent, fs>>

\* db.delete(participant) for each loaded participant, then flush
delete_survey_participants(p) ==
    /\ sess[p].pc = "del_participants"
    /\ LET w == [sess[p].ws EXCEPT !.delP = @ \cup DOMAIN sess[p].loadedP]
           nextpc == IF sess[p].loadedE # {} THEN "del_break_references"
                     ELSE "del_commit"
       IN
       \/ /\ ForeignKeysHold(Apply(w, db))
          /\ sess' = [sess EXCEPT ![p] =
                        [@ EXCEPT !.ws = w, !.pc = nextpc,
                                  !.tasks = (add_task /\ nextpc = "del_commit")]]
       \/ /\ ~ForeignKeysHold(Apply(w, db))
          /\ Rollback(p, "500", "integrity")
       \/ Rollback(p, "500", "fault")
    /\ UNCHANGED <<db, nextId, concurrent, fs>>

\* UPDATE survey_elements SET references_element_id = NULL WHERE id IN (element_ids)
delete_survey_break_references(p) ==
    /\ sess[p].pc = "del_break_references"
    /\ \/ sess' = [sess EXCEPT ![p] =
                    [@ EXCEPT !.ws.nullE = @ \cup sess[p].loadedE,
                              !.pc = "del_elements"]]
       \/ Rollback(p, "500", "fault")
    /\ UNCHANGED <<db, nextId, concurrent, fs>>

\* DELETE FROM survey_elements WHERE id IN (element_ids), then
\* db.delete(db_survey), which is inside "if db_survey.elements:", add_task
\* and return
delete_survey_elements(p) ==
    /\ sess[p].pc = "del_elements"
    /\ LET w == [sess[p].ws EXCEPT !.delE = @ \cup sess[p].loadedE]
       IN
       \/ /\ ForeignKeysHold(Apply(w, db))
          /\ sess' = [sess EXCEPT ![p] =
                        [@ EXCEPT !.ws = w, !.delSurvey = TRUE, !.tasks = add_task,
                                  !.pc = "del_commit"]]
       \/ /\ ~ForeignKeysHold(Apply(w, db))
          /\ Rollback(p, "500", "integrity")
       \/ Rollback(p, "500", "fault")
    /\ UNCHANGED <<db, nextId, concurrent, fs>>

\* get_db_session commits: the survey row is deleted if it was marked
delete_survey_commit(p) ==
    /\ sess[p].pc = "del_commit"
    /\ LET w == IF sess[p].delSurvey
                THEN [sess[p].ws EXCEPT !.delS = @ \cup {sess[p].sid}]
                ELSE sess[p].ws
       IN
       \/ /\ CommitOk(p, w)
          /\ db' = Apply(w, db)
          /\ sess' = [sess EXCEPT ![p] =
                        [@ EXCEPT !.pc = "done", !.ws = EmptyWS, !.result = "ok"]]
       \/ /\ ~CommitOk(p, w)
          /\ Rollback(p, "500", "integrity")
          /\ UNCHANGED db
       \/ /\ Rollback(p, "500", "fault")
          /\ UNCHANGED db
    /\ UNCHANGED <<nextId, concurrent, fs>>

----------------------------------------------------------------------------
(* save_survey_results *)

\* The fields schemas.SurveyResultCreate declares.
SurveyResultCreateFields ==
    {"prolific_pid", "study_id", "session_id", "consent_given", "answers",
     "llm_chat_histories", "participant_start_time", "paste_counts",
     "focus_lost_counts", "page_durations_ms", "element_display_info"}

\* The attributes models.SurveyParticipant declares: its columns and its
\* relationships.
SurveyParticipantColumns ==
    {"id", "survey_id", "prolific_pid", "study_id", "session_id", "start_time",
     "end_time", "consent_given", "completed", "page_durations_log", "survey",
     "responses"}

\* obj.name can be read: the class of obj declares the name. Reading a name
\* it does not declare raises AttributeError.
hasattr(declared, name) == name \in declared

\* Up to "await db.execute(...)" and what the handler makes of its result.
save_survey_results(p, answers) ==
    /\ CanStart(p)
    /\ LET s0 == [Idle EXCEPT !.op = "save", !.answers = answers]
       IN
       \/ /\ answers = <<>>
          /\ sess' = [sess EXCEPT ![p] = [s0 EXCEPT !.pc = "done", !.result = "400"]]
       \* int(first key) raises ValueError, which nothing catches
       \/ /\ answers # <<>>
          /\ ~IsInt(answers[1])
          /\ sess' = [sess EXCEPT ![p] =
                        [s0 EXCEPT !.pc = "done", !.result = "500", !.err = "value"]]
       \/ /\ answers # <<>>
          /\ IsInt(answers[1])
          /\ int(answers[1]) \notin DOMAIN db.elements
          /\ sess' = [sess EXCEPT ![p] = [s0 EXCEPT !.pc = "done", !.result = "400"]]
       \/ /\ answers # <<>>
          /\ IsInt(answers[1])
          /\ int(answers[1]) \in DOMAIN db.elements
          /\ sess' = [sess EXCEPT ![p] =
                        [s0 EXCEPT !.sid = db.elements[int(answers[1])].survey_id,
                                   !.pc = "save_survey"]]
    /\ UNCHANGED <<db, nextId, concurrent, fs>>

\* "survey = await db.get(models.Survey, survey_id_extracted)": 404 when the
\* survey is not there. Else models.SurveyParticipant(...) is called; its
\* keyword arguments are evaluated first, and result_data.is_test_run raises
\* AttributeError, which nothing catches. No statement after the call runs.
save_survey_results_survey(p) ==
    /\ sess[p].pc = "save_survey"
    /\ LET sid == sess[p].sid
           failed == [Idle EXCEPT !.op = "save", !.answers = sess[p].answers,
                                  !.pc = "done"]
       IN
       \/ /\ sid \notin DOMAIN db.surveys
          /\ sess' = [sess EXCEPT ![p] = [failed EXCEPT !.result = "404"]]
       \/ /\ sid \in DOMAIN db.surveys
          /\ ~hasattr(SurveyResultCreateFields, "is_test_run")
          /\ sess' = [sess EXCEPT ![p] =
                        [failed EXCEPT !.result = "500", !.err = "AttributeError"]]
       \* the store fails
       \/ /\ sid \in DOMAIN db.surveys
          /\ sess' = [sess EXCEPT ![p] =
                        [failed EXCEPT !.result = "500", !.err = "fault"]]
    /\ UNCHANGED <<db, nextId, concurrent, fs>>

----------------------------------------------------------------------------
(* What the read operations answer *)

RangeOf(seq) == { seq[i] : i \in DOMAIN seq }

\* Every order in which a query without ORDER BY, or a relationship load, can
\* return the rows S.
Perms(S) ==
    { o \in [1..Cardinality(S) -> S] :
        \A i, j \in 1..Cardinality(S) : i # j => o[i] # o[j] }

\* ORDER BY id
OrderById(S) == CHOOSE o \in Perms(S) : \A i, j \in DOMAIN o : i < j => o[i] < o[j]

\* the sort key (el.page, el.ordering) and Python's order of tuples
Position(el) == <<el.page, el.ordering>>

TupleLeq(a, b) == a[1] < b[1] \/ (a[1] = b[1] /\ a[2] <= b[2])

\* ORDER BY page, ordering: elements at one position in any order
OrderByPosition(rows, E) ==
    { o \in Perms(E) :
        \A i, j \in DOMAIN o :
            i < j => TupleLeq(Position(rows[o[i]]), Position(rows[o[j]])) }

IndexOf(seq, x) == CHOOSE i \in DOMAIN seq : seq[i] = x

\* sorted(loaded, key=lambda el: (el.page, el.ordering)): ascending, and elements
\* with equal keys stay in the order they were loaded in
sorted(loaded, rows) ==
    CHOOSE o \in Perms(RangeOf(loaded)) :
        \A i, j \in DOMAIN o :
            i < j =>
              /\ TupleLeq(Position(rows[o[i]]), Position(rows[o[j]]))
              /\ Position(rows[o[i]]) = Position(rows[o[j]])
                    => IndexOf(loaded, o[i]) < IndexOf(loaded, o[j])

\* a row with its primary key, as a response schema built from_attributes
WithId(id, row) == [id |-> id] @@ row

\* SurveyElementResponse.model_validate(el): TRUE when validation passes. The
\* schema inherits check_question_type, and a stored question_type is always
\* handed to the validator.
SurveyElementResponseValid(row) ==
    check_question_type(row.question_type, row.element_type)

SurveyElementResponse(id, row) == WithId(id, row)

\* the question elements of the CSV export, in header order
QuestionElements(rows) ==
    OrderByPosition(rows, { e \in DOMAIN rows : rows[e].element_type = "question" })

\* the participant-level columns every CSV export starts with
FixedColumns ==
    <<"participant_db_id", "survey_id", "prolific_pid", "study_id", "session_id",
      "start_time", "end_time", "consent_given", "completed", "is_test_run",
      "page_durations_log_json", "total_paste_count_survey",
      "total_focus_lost_count_survey", "selected_task_group_condition">>

\* f"q_{q_el.id}"
base_q_header(id) == "q_" \o ToString(id)

\* the columns one question element adds to the header
QuestionColumns(id) ==
    << base_q_header(id) \o "_text",
       base_q_header(id) \o "_type",
       base_q_header(id) \o "_task_identifier",
       base_q_header(id) \o "_randomization_group",
       base_q_header(id) \o "_llm_enabled_by_config",
       base_q_header(id) \o "_response_value_json",
       base_q_header(id) \o "_displayed_page",
       base_q_header(id) \o "_displayed_ordering",
       base_q_header(id) \o "_paste_count",
       base_q_header(id) \o "_focus_lost_count",
       base_q_header(id) \o "_llm_chat_history_json" >>

\* "for q_el in question_elements: headers.extend([...])"
RECURSIVE ExtendHeaders(_, _)
ExtendHeaders(headers, question_elements) ==
    IF question_elements = <<>> THEN headers
    ELSE ExtendHeaders(headers \o QuestionColumns(Head(question_elements)),
                       Tail(question_elements))

\* the header row: the participant columns, then the columns of each question
CsvHeader(question_elements) ==
    [columns |-> ExtendHeaders(FixedColumns, question_elements)]

----------------------------------------------------------------------------
(* get_survey_results_for_admin and export_survey_results_to_csv *)

\* A survey query that never answers 404.
ReadSurvey_found(p, op, sid) ==
    /\ CanStart(p)
    /\ sess' = [sess EXCEPT ![p] =
                  [Idle EXCEPT !.op = op, !.sid = sid, !.pc = "read_elements"]]
    /\ UNCHANGED <<db, nextId, concurrent, fs>>

\* The survey query of a results request (op "results") or a CSV export (op "csv").
ReadSurvey(p, op, sid) ==
    /\ CanStart(p)
    /\ LET s0 == [Idle EXCEPT !.op = op, !.sid = sid]
       IN
       \/ /\ sid \notin DOMAIN db.surveys
          /\ sess' = [sess EXCEPT ![p] = [s0 EXCEPT !.pc = "done", !.result = "404"]]
       \/ /\ sid \in DOMAIN db.surveys
          /\ sess' = [sess EXCEPT ![p] =
                        [s0 EXCEPT !.title = db.surveys[sid].title,
                                   !.pc = "read_elements"]]
    /\ UNCHANGED <<db, nextId, concurrent, fs>>

get_survey_results_for_admin(p, sid) == ReadSurvey(p, "results", sid)

export_survey_results_to_csv(p, sid) == ReadSurvey(p, "csv", sid)

\* The elements query; the CSV export builds its header from the result.
ReadElements(p) ==
    /\ sess[p].pc = "read_elements"
    /\ LET rows == Restrict(db.elements, ElementsOf(db, sess[p].sid))
           plans == IF sess[p].op = "csv" THEN QuestionElements(rows) ELSE { <<>> }
       IN
       \E question_elements \in plans :
           sess' = [sess EXCEPT ![p] =
                      [@ EXCEPT !.loadedE = DOMAIN rows,
                                !.elements_map = rows,
                                !.question_elements = question_elements,
                                !.body = IF sess[p].op = "csv"
                                         THEN <<CsvHeader(question_elements)>>
                                         ELSE <<>>,
                                !.pc = "read_participants"]]
    /\ UNCHANGED <<db, nextId, concurrent, fs>>

\* The participants query. Without a participant the loop over the
\* participants has nothing to do and the request is answered:
\* total_participants 0 and an empty list, or the CSV header and no data
\* row. With participants, selectinload reads their responses next.
ReadParticipants(p) ==
    /\ sess[p].pc = "read_participants"
    /\ LET parts == ParticipantsOf(db, sess[p].sid)
       IN
       \/ /\ parts = {}
          /\ sess' = [sess EXCEPT ![p] =
                        [@ EXCEPT !.out = 0, !.pc = "done", !.result = "ok"]]
       \/ /\ parts # {}
          /\ sess' = [sess EXCEPT ![p] =
                        [@ EXCEPT !.loadedP = [x \in parts |-> {}],
                                  !.pc = "read_responses"]]
    /\ UNCHANGED <<db, nextId, concurrent, fs>>

\* The query selectinload(SurveyParticipant.responses) issues for the
\* participants that were loaded, and the loop over the participants, which
\* reads p.is_test_run of the first one: AttributeError, which nothing
\* catches. No participant detail and no CSV data row is ever built. The
\* nested export comes here when its loop reaches a participant before an
\* invalid element.
ReadResponses(p) ==
    /\ sess[p].pc = "read_responses"
    /\ ~hasattr(SurveyParticipantColumns, "is_test_run")
    /\ Rollback(p, "500", "AttributeError")
    /\ UNCHANGED <<db, nextId, concurrent, fs>>

----------------------------------------------------------------------------
(* get_survey, list_surveys, export_all_data_flat and export_all_data_nested *)

\* A get_survey that assigns to the loaded survey, so that the commit at the
\* end of the request writes the row.
get_survey_assigning(p, sid) ==
    /\ CanStart(p)
    /\ LET s0 == [Idle EXCEPT !.op = "get", !.sid = sid]
       IN
       \/ /\ sid \notin DOMAIN db.surveys
          /\ sess' = [sess EXCEPT ![p] = [s0 EXCEPT !.pc = "done", !.result = "404"]]
          /\ UNCHANGED db
       \/ /\ sid \in DOMAIN db.surveys
          /\ sess' = [sess EXCEPT ![p] =
                        [s0 EXCEPT !.title = UpdateTitle,
                                   !.pc = "done", !.result = "ok"]]
          /\ db' = [db EXCEPT !.surveys[sid].title = UpdateTitle]
    /\ UNCHANGED <<nextId, concurrent, fs>>

\* select the survey (404 without it)
get_survey(p, sid) ==
    /\ CanStart(p)
    /\ LET s0 == [Idle EXCEPT !.op = "get", !.sid = sid]
       IN
       \/ /\ sid \notin DOMAIN db.surveys
          /\ sess' = [sess EXCEPT ![p] = [s0 EXCEPT !.pc = "done", !.result = "404"]]
       \/ /\ sid \in DOMAIN db.surveys
          /\ sess' = [sess EXCEPT ![p] =
                        [s0 EXCEPT !.title = db.surveys[sid].title,
                                   !.pc = "get_elements"]]
    /\ UNCHANGED <<db, nextId, concurrent, fs>>

\* The query selectinload(Survey.elements) issues for the survey that was
\* loaded; then the elements are sorted and each is validated into a
\* SurveyElementResponse.
get_survey_elements(p) ==
    /\ sess[p].pc = "get_elements"
    /\ LET sid == sess[p].sid IN
       \E loaded \in Perms(ElementsOf(db, sid)) :
          LET sorted_elements == sorted(loaded, db.elements)
          IN
          IF \A e \in ElementsOf(db, sid) : SurveyElementResponseValid(db.elements[e])
          THEN sess' = [sess EXCEPT ![p] =
                   [@ EXCEPT !.body = [i \in DOMAIN sorted_elements |->
                                          SurveyElementResponse(
                                              sorted_elements[i],
                                              db.elements[sorted_elements[i]])],
                             !.pc = "done", !.result = "ok"]]
          ELSE sess' = [sess EXCEPT ![p] =
                   [@ EXCEPT !.pc = "done", !.result = "500",
                             !.err = "validation"]]
    /\ UNCHANGED <<db, nextId, concurrent, fs>>

SurveyListItem(survey, element_count) ==
    [id |-> survey.id, title |-> survey.title, element_count |-> element_count]

\* The surveys query. The surveys come ordered by updated_at, which the store
\* of the model does not keep: any order.
list_surveys(p) ==
    /\ CanStart(p)
    /\ \E o \in Perms(DOMAIN db.surveys) :
         sess' = [sess EXCEPT ![p] =
                    [Idle EXCEPT !.op = "list",
                                 !.surveys = [i \in DOMAIN o |->
                                                WithId(o[i], db.surveys[o[i]])],
                                 !.pc = IF o = <<>> THEN "done" ELSE "list_count",
                                 !.result = IF o = <<>> THEN "ok" ELSE "none"]]
    /\ UNCHANGED <<db, nextId, concurrent, fs>>

\* The count query for the next survey of the list, and the response after
\* the last one.
list_surveys_count(p) ==
    /\ sess[p].pc = "list_count"
    /\ LET survey == sess[p].surveys[Len(sess[p].body) + 1]
           element_count == Cardinality(ElementsOf(db, survey.id))
           last == Len(sess[p].body) + 1 = Len(sess[p].surveys)
       IN
       sess' = [sess EXCEPT ![p] =
                  [@ EXCEPT !.body = Append(@, SurveyListItem(survey, element_count)),
                            !.surveys = IF last THEN <<>> ELSE @,
                            !.pc = IF last THEN "done" ELSE "list_count",
                            !.result = IF last THEN "ok" ELSE "none"]]
    /\ UNCHANGED <<db, nextId, concurrent, fs>>

\* One list of the flat export: select(table) without filter, each row validated
\* into its export schema, which declares a field for each column the row
\* holds. The order is the database's; the list is kept as the bag of its rows.
ExportList(table) == SetToBag({ WithId(i, table[i]) : i \in DOMAIN table })

AllDataFlatExport(d) ==
    [surveys |-> ExportList(d.surveys),
     survey_elements |-> ExportList(d.elements),
     survey_participants |-> ExportList(d.participants),
     responses |-> ExportList(d.responses)]

\* The surveys query.
export_all_data_flat(p) ==
    /\ CanStart(p)
    /\ sess' = [sess EXCEPT ![p] =
                  [Idle EXCEPT !.op = "flat",
                               !.body = <<[AllDataFlatExport(EmptyDB) EXCEPT
                                             !.surveys = AllDataFlatExport(db).surveys]>>,
                               !.out = 1,
                               !.pc = "flat_select"]]
    /\ UNCHANGED <<db, nextId, concurrent, fs>>

\* The elements, participants and responses queries, one at a time, and the
\* response after the last one.
export_all_data_flat_select(p) ==
    /\ sess[p].pc = "flat_select"
    /\ LET FlatLists == <<"surveys", "survey_elements", "survey_participants",
                          "responses">>
           list == FlatLists[sess[p].out + 1]
           last == sess[p].out + 1 = Len(FlatLists)
       IN
       sess' = [sess EXCEPT ![p] =
                  [@ EXCEPT !.body = <<[@[1] EXCEPT ![list] = AllDataFlatExport(db)[list]]>>,
                            !.out = IF last THEN 0 ELSE @ + 1,
                            !.pc = IF last THEN "done" ELSE "flat_select",
                            !.result = IF last THEN "ok" ELSE "none"]]
    /\ UNCHANGED <<db, nextId, concurrent, fs>>

\* One survey of the nested export whose participants list is empty:
\* survey_obj.elements is a relationship load without an order, and it is not
\* sorted afterwards.
SurveyFullNestedExport(survey, rows) ==
    { [id |-> survey.id, title |-> survey.title,
       questions |-> [i \in DOMAIN eo |->
                        SurveyElementResponse(eo[i], rows[eo[i]])],
       participants_results |-> <<>>] :
        eo \in Perms({ e \in DOMAIN rows : rows[e].survey_id = survey.id }) }

\* AllDataNestedExport.surveys for the surveys in this order
RECURSIVE AllDataNestedExport(_, _)
AllDataNestedExport(surveys, rows) ==
    IF surveys = <<>> THEN { <<>> }
    ELSE { <<h>> \o t : h \in SurveyFullNestedExport(Head(surveys), rows),
                        t \in AllDataNestedExport(Tail(surveys), rows) }

\* the ids of the surveys a request has loaded
LoadedSurveys(s) == { s.surveys[i].id : i \in DOMAIN s.surveys }

\* The surveys query of the nested export, ordered by id. Without a survey
\* nothing else is loaded.
export_all_data_nested(p) ==
    /\ CanStart(p)
    /\ LET o == OrderById(DOMAIN db.surveys)
       IN sess' = [sess EXCEPT ![p] =
                    [Idle EXCEPT !.op = "nested",
                                 !.surveys = [i \in DOMAIN o |->
                                                WithId(o[i], db.surveys[o[i]])],
                                 !.pc = IF o = <<>> THEN "done" ELSE "nested_elements",
                                 !.result = IF o = <<>> THEN "ok" ELSE "none"]]
    /\ UNCHANGED <<db, nextId, concurrent, fs>>

\* The query selectinload(Survey.elements) issues for the loaded surveys.
export_all_data_nested_elements(p) ==
    /\ sess[p].pc = "nested_elements"
    /\ LET rows == Restrict(db.elements,
                      { e \in DOMAIN db.elements :
                          db.elements[e].survey_id \in LoadedSurveys(sess[p]) })
       IN sess' = [sess EXCEPT ![p] =
                    [@ EXCEPT !.loadedE = DOMAIN rows, !.elements_map = rows,
                              !.pc = "nested_participants"]]
    /\ UNCHANGED <<db, nextId, concurrent, fs>>

\* The loop over the loaded surveys, in the order of the query: for each survey
\* its participants are mapped first, and map_participant_detail reads
\* p_obj.is_test_run of the first one (AttributeError); then its elements are
\* validated (ValidationError). What the loop raises is what the first survey
\* that has a participant or an invalid element raises; "none" when no survey
\* has either. "owner" gives the survey of each loaded participant.
RECURSIVE exported_surveys_raises(_, _, _)
exported_surveys_raises(surveys, rows, owner) ==
    IF surveys = <<>> THEN "none"
    ELSE LET sid == Head(surveys).id IN
         IF \E x \in DOMAIN owner : owner[x] = sid
         THEN "AttributeError"
         ELSE IF \E e \in DOMAIN rows :
                    /\ rows[e].survey_id = sid
                    /\ ~SurveyElementResponseValid(rows[e])
              THEN "validation"
              ELSE exported_surveys_raises(Tail(surveys), rows, owner)

\* The query selectinload(Survey.participants) issues for the loaded surveys.
\* Without a participant the surveys are built, each with its elements
\* validated, and the request is answered; with participants, selectinload
\* reads their responses next, and the loop then fails at the first survey
\* that has a participant or an invalid element.
export_all_data_nested_participants(p) ==
    /\ sess[p].pc = "nested_participants"
    /\ LET parts == { x \in DOMAIN db.participants :
                        db.participants[x].survey_id \in LoadedSurveys(sess[p]) }
           rows == sess[p].elements_map
           valid == \A e \in DOMAIN rows : SurveyElementResponseValid(rows[e])
       IN
       \/ /\ parts = {}
          /\ valid
          /\ \E b \in AllDataNestedExport(sess[p].surveys, rows) :
               sess' = [sess EXCEPT ![p] =
                          [@ EXCEPT !.body = b, !.pc = "done", !.result = "ok"]]
       \/ /\ parts = {}
          /\ ~valid
          /\ Rollback(p, "500", "validation")
       \/ /\ parts # {}
          /\ LET owner == [x \in parts |-> db.participants[x].survey_id]
                 raised == exported_surveys_raises(sess[p].surveys, rows, owner)
             IN sess' = [sess EXCEPT ![p] =
                          [@ EXCEPT !.loadedP = [x \in parts |-> {}],
                                    !.pc = IF raised = "AttributeError"
                                           THEN "read_responses"
                                           ELSE "nested_responses"]]
    /\ UNCHANGED <<db, nextId, concurrent, fs>>

\* The responses query of the nested export when a survey with an invalid
\* element comes, in the order of the ids, before every survey that has a
\* participant: the loop raises the ValidationError of that element before it
\* maps a participant.
export_all_data_nested_responses(p) ==
    /\ sess[p].pc = "nested_responses"
    /\ Rollback(p, "500", "validation")
    /\ UNCHANGED <<db, nextId, concurrent, fs>>

----------------------------------------------------------------------------
(* The response has been sent: the slot is free again. A background task of
   the request that has not started yet stays scheduled. *)

Return(p) ==
    /\ sess[p].pc = "done"
    /\ sess' = [sess EXCEPT ![p] = Idle]
    /\ fs' = IF sess[p].tasks THEN [fs EXCEPT !.pending = @ + 1] ELSE fs
    /\ UNCHANGED <<db, nextId, concurrent>>

----------------------------------------------------------------------------
(* upload_image and perform_image_cleanup *)

MaxFiles == 2           \* files upload_image stores
MaxTasks == 2           \* cleanup tasks that are scheduled or running

STATIC_FILES_ROUTE == "/static_images"

BACKEND_BASE_URL == "http://127.0.0.1:8000"

\* f"{uuid.uuid4()}{file_extension}": a name no other upload gets
unique_filename(n) == "f" \o ToString(n) \o ".png"

FileNames == { unique_filename(n) : n \in 1..MaxFiles }

\* what upload_image answers for the file it stored
relative_url_path(name) == STATIC_FILES_ROUTE \o "/" \o name

\* the image_url perform_image_cleanup looks for in the store
expected_full_url_in_db(name) == BACKEND_BASE_URL \o STATIC_FILES_ROUTE \o "/" \o name

\* What the cleanup task that ended last has logged: of the files it listed,
\* the ones no element uses (unused) and the ones among them it could not
\* delete (fails); or that its query failed.
NoCleanup == [pc |-> "idle", unused |-> {}, fails |-> {}]

\* The empty upload directory: the files in it, the number of names handed
\* out and the number of the file whose path was answered last (0: none yet);
\* the cleanup tasks of answered requests that have not started (pending), the
\* image_url values each running task has read (running, a bag), and the log
\* of the task that ended last. "background" says whether the specification
\* follows the tasks.
NoFiles == [files |-> {}, next |-> 1, answered |-> 0, background |-> FALSE,
            pending |-> 0, running |-> EmptyBag, cleanup |-> NoCleanup]

\* POST /api/upload/image: a file type that is not allowed is refused; else
\* the file is stored under a new name and its relative path is answered, or
\* storing it fails: when file_path.open("wb") raises there is no file, when
\* shutil.copyfileobj raises the file that open created stays in the
\* directory, empty or partial, and its path is answered to nobody.
upload_image(p) ==
    /\ CanStart(p)
    /\ fs.next <= MaxFiles
    /\ LET s0 == [Idle EXCEPT !.op = "upload", !.pc = "done"]
           name == unique_filename(fs.next)
       IN
       \/ /\ sess' = [sess EXCEPT ![p] = [s0 EXCEPT !.result = "400"]]
          /\ UNCHANGED fs
       \/ /\ sess' = [sess EXCEPT ![p] =
                        [s0 EXCEPT !.result = "ok",
                                   !.body = <<relative_url_path(name)>>]]
          /\ fs' = [fs EXCEPT !.files = @ \cup {name}, !.next = @ + 1,
                               !.answered = fs.next]
       \/ /\ sess' = [sess EXCEPT ![p] = [s0 EXCEPT !.result = "500"]]
          /\ \/ fs' = [fs EXCEPT !.files = @ \cup {name}, !.next = @ + 1]
             \/ UNCHANGED fs
    /\ UNCHANGED <<db, nextId, concurrent>>

\* The request of a slot has called background_tasks.add_task and returned:
\* create_survey and delete_survey before the session commits, update_survey
\* after its commit and refresh. The task starts after the response, which
\* the framework sends before or after the commit of the session; nothing
\* makes it wait for another task or for a later request.
Scheduled(s) == s.tasks

\* the cleanup tasks that have been scheduled and have not ended
TasksInFlight ==
    Cardinality({p \in Procs : Scheduled(sess[p])}) + fs.pending
        + BagCardinality(fs.running)

\* the image_url values of the committed elements that have one
used_image_full_urls(d) ==
    { d.elements[e].image_url : e \in { x \in DOMAIN d.elements :
                                          d.elements[x].image_url # Null } }

\* perform_image_cleanup, up to "await session.execute(stmt)" and the set it
\* builds from the result: a scheduled task, of a request still in its slot or
\* of an earlier one, starts and reads the image_url values in use. A failure
\* of the query ends the task; it is logged.
cleanup_read ==
    /\ LET f == [fs EXCEPT !.pending = @ - 1] IN
         /\ \/ \E p \in Procs :
                  /\ Scheduled(sess[p])
                  /\ sess' = [sess EXCEPT ![p] = [@ EXCEPT !.tasks = FALSE]]
                  /\ \/ fs' = [fs EXCEPT !.running =
                                  @ (+) SetToBag({used_image_full_urls(db)})]
                     \/ fs' = [fs EXCEPT !.cleanup =
                                  [NoCleanup EXCEPT !.pc = "read_failed"]]
            \/ /\ fs.pending > 0
               /\ UNCHANGED sess
               /\ \/ fs' = [f EXCEPT !.running =
                                 @ (+) SetToBag({used_image_full_urls(db)})]
                  \/ fs' = [f EXCEPT !.cleanup =
                                 [NoCleanup EXCEPT !.pc = "read_failed"]]
    /\ UNCHANGED <<db, nextId, concurrent>>

\* "if expected_full_url_in_db not in used_image_full_urls"
Unused(files, used) ==
    { name \in files : expected_full_url_in_db(name) \notin used }

\* A loop over the stored files that ends at the first file it cannot delete.
RECURSIVE Sweep_stops(_, _, _, _)
Sweep_stops(files, stored_files, used, fails) ==
    IF stored_files = <<>> THEN files
    ELSE LET name == Head(stored_files) IN
         IF expected_full_url_in_db(name) \in used
         THEN Sweep_stops(files, Tail(stored_files), used, fails)
         ELSE IF name \in fails THEN files
         ELSE Sweep_stops(files \ {name}, Tail(stored_files), used, fails)

\* "for file_path_obj in stored_files": a file whose expected URL no element
\* has is unlinked; when unlink raises (the files of "fails"), the error is
\* logged and the loop goes on. What is left of "files".
RECURSIVE Sweep(_, _, _, _)
Sweep(files, stored_files, used, fails) ==
    IF stored_files = <<>> THEN files
    ELSE LET name == Head(stored_files) IN
         IF expected_full_url_in_db(name) \in used
         THEN Sweep(files, Tail(stored_files), used, fails)
         ELSE IF name \in fails
         THEN Sweep(files, Tail(stored_files), used, fails)
         ELSE Sweep(files \ {name}, Tail(stored_files), used, fails)

\* perform_image_cleanup after the query, for one of the running tasks: the
\* directory listing, in any order, and the loop over it with the set the
\* task has read; any unlink it attempts may fail. The task ends.
cleanup_sweep ==
    /\ \E used \in BagToSet(fs.running), stored_files \in Perms(fs.files),
          fails \in SUBSET FileNames :
         /\ fails \subseteq Unused(fs.files, used)
         /\ fs' = [fs EXCEPT
                     !.files = Sweep(fs.files, stored_files, used, fails),
                     !.running = @ (-) SetToBag({used}),
                     !.cleanup = [pc |-> "swept",
                                  unused |-> Unused(fs.files, used),
                                  fails |-> fails]]
    /\ UNCHANGED <<db, sess, nextId, concurrent>>

\* The log of the task that ended last is not looked at any more.
cleanup_return ==
    /\ fs.cleanup.pc \in {"swept", "read_failed"}
    /\ fs' = [fs EXCEPT !.cleanup = NoCleanup]
    /\ UNCHANGED <<db, sess, nextId, concurrent>>

----------------------------------------------------------------------------

InitStore ==
    /\ db = EmptyDB
    /\ sess = [p \in Procs |-> Idle]
    /\ fs = NoFiles
    /\ nextId = [s |-> 1, e |-> 1]

Init == InitStore /\ concurrent = FALSE

Next ==
    \E p \in Procs :
        \/ \E q \in QuestionLists : create_survey(p, q)
        \/ create_survey_commit(p)
        \/ \E sid \in SurveyIds, q \in QuestionLists : update_survey(p, sid, q)
        \/ update_survey_elements(p)
        \/ update_survey_commit(p)
        \/ update_survey_refresh(p)
        \/ \E sid \in SurveyIds : delete_survey(p, sid)
        \/ delete_survey_commit(p)
        \/ \E a \in AnswerLists : save_survey_results(p, a)
        \/ \E sid \in SurveyIds : get_survey(p, sid)
        \/ get_survey_elements(p)
        \/ list_surveys(p)
        \/ list_surveys_count(p)
        \/ \E sid \in SurveyIds : get_survey_results_for_admin(p, sid)
        \/ \E sid \in SurveyIds : export_survey_results_to_csv(p, sid)
        \/ ReadElements(p)
        \/ ReadParticipants(p)
        \/ export_all_data_flat(p)
        \/ export_all_data_flat_select(p)
        \/ export_all_data_nested(p)
        \/ export_all_data_nested_elements(p)
        \/ export_all_data_nested_participants(p)
        \/ Return(p)

\* One request at a time.
Spec == Init /\ [][Next]_vars

\* Two requests interleaved at every await.
InitConc == InitStore /\ concurrent = TRUE

SpecConc == InitConc /\ [][Next]_vars

\* The steps of the handlers that run over an element, a participant or a
\* response that is stored.
StepsOverRows ==
    \E p \in Procs :
        \/ update_survey_participant(p)
        \/ update_survey_flush_participants(p)
        \/ delete_survey_responses(p)
        \/ delete_survey_participants(p)
        \/ delete_survey_break_references(p)
        \/ delete_survey_elements(p)
        \/ save_survey_results_survey(p)
        \/ ReadResponses(p)
        \/ export_all_data_nested_responses(p)

\* Every step of every handler, one request at a time and interleaved.
NextAll == Next \/ StepsOverRows

SpecAll == Init /\ [][NextAll]_vars

SpecAllConc == InitConc /\ [][NextAll]_vars

\* No element, participant or response is ever stored: create_survey and
\* update_survey raise TypeError for every list that holds an element, and a
\* submission is refused when its first key names no stored element. So no
\* step of StepsOverRows is ever taken, and Spec and SpecAll have the same
\* behaviours, as have SpecConc and SpecAllConc.
NoRowsBelowSurveys ==
    /\ db.elements = EmptyFn
    /\ db.participants = EmptyFn
    /\ db.responses = EmptyFn
    /\ \A p \in Procs :
          sess[p].pc \notin {"upd_participants", "upd_flush_participants",
                             "del_responses", "del_participants",
                             "del_break_references", "del_elements",
                             "save_survey", "read_responses",
                             "nested_responses"}

----------------------------------------------------------------------------
(* Surveys with images *)

\* the image_url values a caller sends for a file: the path upload_image
\* answered, or that path behind the address of the backend
ImageUrls ==
    { relative_url_path(name) : name \in FileNames }
    \cup { expected_full_url_in_db(name) : name \in FileNames }

\* the file an image_url designates
FileOf(url) ==
    CHOOSE name \in FileNames :
        url \in { relative_url_path(name), expected_full_url_in_db(name) }

\* a caller sends the path that upload_image answered last
Uploaded(url) ==
    fs.answered > 0 /\ FileOf(url) = unique_filename(fs.answered)

\* an info element with an image
ImageElement(url) ==
    [ElementSpec(<<"info", Absent>>, NullId) EXCEPT !.image_url = url]

\* question lists with at most one element, which has an uploaded image
ImageLists == { <<>> } \cup { <<ImageElement(url)>> : url \in ImageUrls }

KnownImages(questions) ==
    \A i \in DOMAIN questions : Uploaded(questions[i].image_url)

NextImagesStep ==
    \E p \in Procs :
        \/ upload_image(p)
        \/ \E q \in ImageLists :
              /\ KnownImages(q)
              /\ TasksInFlight < MaxTasks
              /\ nextId.s = 1
              /\ create_survey(p, q)
        \/ create_survey_commit(p)
        \/ \E q \in ImageLists :
              /\ KnownImages(q)
              /\ TasksInFlight < MaxTasks
              /\ update_survey(p, 1, q)
        \/ update_survey_elements(p)
        \/ update_survey_commit(p)
        \/ update_survey_refresh(p)
        \/ TasksInFlight < MaxTasks /\ delete_survey(p, 1)
        \/ delete_survey_commit(p)
        \/ cleanup_read
        \/ cleanup_sweep
        \/ Return(p)

InitImages ==
    /\ db = EmptyDB
    /\ sess = [p \in Procs |-> Idle]
    /\ fs = [NoFiles EXCEPT !.background = TRUE]
    /\ nextId = [s |-> 1, e |-> 1]
    /\ concurrent = FALSE

\* The sweep and the end of a task are one segment without an await: after a
\* sweep nothing runs before the task has ended.
NextImages ==
    \/ /\ fs.cleanup.pc = "idle"
       /\ NextImagesStep
    \/ cleanup_return

\* Uploads and the definitions of one survey, which is created, replaced and
\* deleted, one request at a time, with the cleanup tasks running in
\* the background, beside each other and beside later requests. A caller
\* waits with a request that schedules a task while MaxTasks tasks have not
\* ended. No element is ever stored, so the steps of update_survey and
\* delete_survey over elements, participants and responses have nothing to
\* do, and no uploaded file is in use.
SpecImages == InitImages /\ [][NextImages]_vars

----------------------------------------------------------------------------
(* Deleting a survey *)

\* C2: whenever delete_survey answers with success, the survey row, every
\* element of the survey, every participant of the survey and every response
\* of those participants are absent from the committed store, whatever the
\* survey's number of elements and participants; it answers 404 only when the
\* survey does not exist.
DeleteSuccessRemovesSurvey ==
    \A p \in Procs :
        LET s == sess[p] IN
        (s.pc = "done" /\ s.op = "delete") =>
            /\ s.result = "ok" =>
                  /\ s.sid \notin DOMAIN db.surveys
                  /\ ElementsOf(db, s.sid) = {}
                  /\ ParticipantsOf(db, s.sid) = {}
                  /\ \A r \in DOMAIN db.responses :
                        db.responses[r].participant_id \notin DOMAIN s.loadedP
            /\ s.result = "404" => s.sid \notin DOMAIN db.surveys

----------------------------------------------------------------------------
(* Atomicity *)

\* C3: update_survey and delete_survey are all-or-nothing.  No step of such a
\* request changes the committed store except its successful commit, so a
\* request that fails at any step (a foreign key error at a flush or at the
\* commit included) leaves surveys, elements, participants and responses as
\* they were; the successful commit applies all of the request's steps in one
\* step: the loaded participants, their responses and the loaded elements are
\* gone, an update has stored its fields and its new elements, and a delete
\* that marked the survey row has removed it.  (The refresh that update_survey
\* runs after its commit is no step of the cascade: when it fails the request
\* answers 500 and the store keeps the whole replacement.)
AllOrNothing ==
    [][\A p \in Procs :
          LET s == sess[p]
              t == sess'[p]
          IN
          (t.op \in {"update", "delete"} /\ s.pc # "done" /\ t.pc # "idle") =>
             IF \/ s.pc = "upd_commit" /\ t.pc = "upd_refresh"
                \/ s.op = "delete" /\ s.pc # "idle" /\ t.pc = "done" /\ t.result = "ok"
             THEN /\ DOMAIN s.loadedP \cap DOMAIN db'.participants = {}
                  /\ \A r \in DOMAIN db'.responses :
                        db'.responses[r].participant_id \notin DOMAIN s.loadedP
                  /\ s.loadedE \cap DOMAIN db'.elements = {}
                  /\ s.op = "update" =>
                        /\ db'.surveys[s.sid].title = s.title
                        /\ Restrict(db'.elements, ElementsOf(db', s.sid))
                              = NewElements(SurveyElementColumns, s.questions,
                                            s.sid, t.out)
                  /\ (s.op = "delete" /\ s.delSurvey) =>
                        s.sid \notin DOMAIN db'.surveys
             ELSE db' = db
      ]_vars

\* An update_survey request with a new title and an element had assigned the
\* title and flushed when building the element raised TypeError: the request
\* is answered 500 and the survey has the title it was created with.
AllOrNothingReached ==
    \E p \in Procs :
        /\ sess[p].pc = "done" /\ sess[p].op = "update"
        /\ sess[p].result = "500" /\ sess[p].err = "TypeError"
        /\ sess[p].title = UpdateTitle
        /\ sess[p].sid \in DOMAIN db.surveys
        /\ db.surveys[sess[p].sid].title = CreateTitle

----------------------------------------------------------------------------
(* Requests that name a missing survey *)

\* C4: a well-formed update_survey request, and every delete_survey,
\* get_survey_results_for_admin and export_survey_results_to_csv request, that
\* names a survey that does not exist is answered 404 in its first step and
\* leaves the committed store unchanged.
MissingSurveyIsNotFound ==
    [][\A p \in Procs :
          LET t == sess'[p] IN
          (/\ sess[p].pc = "idle"
           /\ t.op \in {"update", "delete", "results", "csv"}
           /\ t.sid \notin DOMAIN db.surveys
           /\ SurveyCreate(t.questions)) =>
             (t.pc = "done" /\ t.result = "404" /\ db' = db)
      ]_vars

\* A CSV export naming a missing survey has been answered 404 while another
\* survey is stored.
MissingSurveyIsNotFoundReached ==
    \E p \in Procs :
        /\ sess[p].pc = "done" /\ sess[p].result = "404"
        /\ sess[p].op = "csv"
        /\ sess[p].sid \notin DOMAIN db.surveys
        /\ DOMAIN db.surveys # {}

----------------------------------------------------------------------------
(* Validation *)

\* C9: a create_survey or update_survey request whose list holds an element of
\* kind question without a subtype (the field absent or null) is answered 422
\* before the handler runs, and no stored question element lacks its subtype.
QuestionWithoutSubtypeRejected ==
    /\ \A p \in Procs :
          LET s == sess[p] IN
          (/\ s.op \in {"create", "update"}
           /\ \E i \in DOMAIN s.questions :
                 /\ s.questions[i].element_type = "question"
                 /\ s.questions[i].question_type \in {Absent, Null}) =>
             (s.pc = "done" /\ s.result = "422")
    /\ \A e \in DOMAIN db.elements :
          db.elements[e].element_type = "question" =>
              db.elements[e].question_type # Null

----------------------------------------------------------------------------
(* The read operations *)

ReadOps == {"get", "list", "results", "flat", "nested", "csv"}

\* C18: a step of get_survey, list_surveys, get_survey_results_for_admin,
\* export_all_data_flat, export_all_data_nested or export_survey_results_to_csv,
\* whether the request succeeds or fails, leaves the surveys, elements,
\* participants and responses and all their fields as they were.
ReadsChangeNothing ==
    [][(\E p \in Procs :
          /\ sess'[p] # sess[p]
          /\ sess[p].op \in ReadOps \/ sess'[p].op \in ReadOps)
       => (db' = db /\ nextId' = nextId)]_vars

\* A get_survey request has been answered with a stored survey, or with 404
\* for a missing one while another survey is stored.
ReadsChangeNothingReached ==
    \E p \in Procs :
        /\ sess[p].pc = "done" /\ sess[p].op = "get"
        /\ DOMAIN db.surveys # {}
        /\ \/ sess[p].result = "ok" /\ sess[p].title = db.surveys[sess[p].sid].title
           \/ sess[p].result = "404" /\ sess[p].sid \notin DOMAIN db.surveys

----------------------------------------------------------------------------
(* Submissions: input validation *)

\* The responses of participant pid in store d answer exactly the entries
\* "entries", one response per entry.
OneResponsePer(d, pid, entries) ==
    /\ Cardinality(ResponsesOf(d, pid)) = Len(entries)
    /\ \A i \in DOMAIN entries :
          IsInt(entries[i]) =>
              \E r \in ResponsesOf(d, pid) :
                  d.responses[r].survey_element_id = int(entries[i])

\* the results a caller reads as its own error
ClientErrors == { "400", "404", "422" }

\* C30: a submission with no answers or with a first key that names no element
\* is rejected with a client error and stores nothing; a key that is not an
\* integer is rejected in the same way or skipped; an accepted submission
\* stores exactly one response per answer with an integer key and none for a
\* skipped key.
SaveInputValidated ==
    [][\A p \in Procs :
          LET s == sess[p]
              t == sess'[p]
              rejected == t.pc = "done" /\ t.result \in ClientErrors /\ db' = db
          IN
          /\ (s.pc = "idle" /\ t.pc # "idle" /\ t.op = "save") =>
                /\ t.answers = <<>> => rejected
                /\ (t.answers # <<>> /\ ~IsInt(t.answers[1])) =>
                      (rejected \/ t.pc = "save_survey")
                /\ (t.answers # <<>> /\ IsInt(t.answers[1])
                      /\ int(t.answers[1]) \notin DOMAIN db.elements) => rejected
          /\ (s.pc = "save_commit" /\ t.pc = "done" /\ t.result = "ok") =>
                OneResponsePer(db', t.out, IntEntries(s.answers))]_vars

----------------------------------------------------------------------------
(* The image cleanup *)

CleanupStep == fs'.cleanup # fs.cleanup \/ fs'.running # fs.running

\* what a request holds apart from its note that the cleanup is to be started
Outcome(s) == [s EXCEPT !.tasks = FALSE]

\* C26: no step of the image cleanup, whether it reads the store, fails to
\* read it, deletes files or fails to delete one, changes the store or the
\* result of any request (starting the task only takes it off the list of the
\* request's background tasks); and a sweep has deleted every orphan it listed
\* except the ones whose deletion failed, so one failed deletion does not end
\* the sweep.
CleanupNeverFailsRequest ==
    /\ [][CleanupStep =>
            /\ UNCHANGED <<db, nextId>>
            /\ \A p \in Procs : Outcome(sess'[p]) = Outcome(sess[p])]_vars
    /\ [](fs.cleanup.pc = "swept" =>
            \A name \in fs.cleanup.unused \ fs.cleanup.fails : name \notin fs.files)

\* C26 witness: after a request that was answered ok and scheduled the
\* cleanup, a sweep has failed to delete one unused file, which is still
\* there, and has deleted another; the request is still answered ok.
CleanupNeverFailsRequestReached ==
    /\ \E p \in Procs :
         /\ sess[p].op \in {"create", "update", "delete"}
         /\ sess[p].pc = "done" /\ sess[p].result = "ok" /\ ~Scheduled(sess[p])
    /\ fs.cleanup.pc = "swept"
    /\ \E failed \in fs.cleanup.fails :
         /\ failed \in fs.files
         /\ \E name \in fs.cleanup.unused \ fs.cleanup.fails : name \notin fs.files

====
